---- MODULE Spec2Model ----
(***************************************************************************)
(* Model of src/cloud-function/main.py: the Dialogflow webhook that books  *)
(* and cancels golf bays in two store tables, bookings and bays.           *)
(*                                                                         *)
(* Every request is served by its own invocation of handle_request; the    *)
(* invocations share nothing but the store.  A store call (one .execute()) *)
(* is atomic; between the store calls of one invocation the calls of the   *)
(* others may happen.  new_booking makes its reads in find_a_bay and then  *)
(* its insert: these are two steps of the model.  The bays table is never  *)
(* written by the program, so the two reads of find_a_bay are one step.    *)
(***************************************************************************)
EXTENDS Integers, Sequences, FiniteSets, TLC

VARIABLES
    bookings,   \* the rows of table bookings, in insertion order (row i has id i)
    bays,       \* table bays: id -> status
    pc,         \* per invocation: where it is in the code
    req,        \* per invocation: the request it serves
    bay_id,     \* per invocation: new_booking's local bay_id
    resp,       \* per invocation: what handle_request returns
    log         \* per invocation: the functions whose except branch printed

vars == <<bookings, bays, pc, req, bay_id, resp, log>>

(***************************************************************************)
(* Bounds of the model.                                                    *)
(***************************************************************************)
\* rows the bookings table may hold
MaxBookings == 2
\* bays are numbered 1..MaxBay
MaxBay == 2

\* concurrent invocations of the cloud function
Procs == {"p1", "p2"}

BayIds == 1..MaxBay

\* Python's None, for a time of day, a bay id or a booking id
None == -1
NoDate == <<>>

(***************************************************************************)
(* Time utilities.  A time of day 'HH:MM:SS' is its number of seconds      *)
(* since midnight: the store compares time columns by that order.          *)
(***************************************************************************)
SecondsPerHour == 3600
SecondsPerDay == 86400

\* The texts a request may carry as booking_start_time.
StartTimeTexts == {"09:00 AM", "10:00 AM", "11:00 AM", "11:00 PM", "2pm"}

\* What strptime(text, '%I:%M %p') matches: <<%I, %M, %p>>, or <<>> when the
\* text does not have the format.
StartTimeFields(text) ==
    CASE text = "09:00 AM" -> <<9, 0, "AM">>
      [] text = "10:00 AM" -> <<10, 0, "AM">>
      [] text = "11:00 AM" -> <<11, 0, "AM">>
      [] text = "11:00 PM" -> <<11, 0, "PM">>
      [] OTHER -> <<>>

\* format_start_time: 12-hour text to 24-hour time, None when strptime raises.
format_start_time(start_time) ==
    LET f == StartTimeFields(start_time) IN
    IF f = <<>> THEN None
    ELSE ((f[1] % 12) + (IF f[3] = "PM" THEN 12 ELSE 0)) * SecondsPerHour + f[2] * 60

\* The texts a request may carry as booking_duration.
DurationTexts == {"1 hours", "2 hours", "3 hours", "0 hours"}

\* data['booking_duration'].split(' ')[0]
DurationToken(text) ==
    CASE text = "1 hours" -> "1"
      [] text = "2 hours" -> "2"
      [] text = "3 hours" -> "3"
      [] OTHER -> "0"

\* int(token) succeeds
IsIntToken(token) == token \in {"0", "1", "2", "3"}

\* int(token)
IntOfToken(token) ==
    CASE token = "0" -> 0
      [] token = "1" -> 1
      [] token = "2" -> 2
      [] OTHER -> 3

\* generate_end_time: start + duration hours, of which .time() keeps the time
\* of day only; None when strptime(None) or int(duration) raises.
generate_end_time(duration, start_time) ==
    IF start_time = None \/ ~IsIntToken(duration) THEN None
    ELSE (start_time + IntOfToken(duration) * SecondsPerHour) % SecondsPerDay

\* booking_date: the f-string of year, month and day
FormatDate(d) == <<d.year, d.month, d.day>>

\* str.lower on the e-mail addresses of the model
Lower(email) == IF email = "Ann@x.com" THEN "ann@x.com" ELSE email

(***************************************************************************)
(* The requests of the model.                                              *)
(***************************************************************************)
Day1 == [year |-> 2025, month |-> 6, day |-> 1]
Day2 == [year |-> 2025, month |-> 6, day |-> 2]

\* the addresses a cancelBooking request may carry
CancelEmails == {"Ann@x.com", "bob@x.com"}

Params(id, email, date, start, duration) ==
    [booking_id |-> id, customer_email |-> email, booking_date |-> date,
     booking_start_time |-> start, booking_duration |-> duration]

NoParams == Params(None, "", Day1, "", "")

\* sessionInfo.parameters of the makeNewBooking requests: 09:00-11:00 and
\* 11:00-12:00 on the same day, and a start time that is no clock time
BookingParams ==
    { Params(None, "Ann@x.com", Day1, "09:00 AM", "2 hours"),
      Params(None, "ann@x.com", Day1, "11:00 AM", "1 hours"),
      Params(None, "ann@x.com", Day1, "2pm", "1 hours") }

\* makeNewBooking requests at the edges of the time utilities: an end past
\* midnight (on another day), a duration of zero hours
EdgeBookingParams ==
    { Params(None, "ann@x.com", Day2, "11:00 PM", "3 hours"),
      Params(None, "ann@x.com", Day1, "10:00 AM", "0 hours") }

\* sessionInfo.parameters of the cancelBooking requests
CancelParams ==
    { Params(id, email, Day1, "", "") : id \in 1..MaxBookings, email \in CancelEmails }

Request(method, tag, params) == [method |-> method, tag |-> tag, params |-> params]

NoRequest == Request("", "", NoParams)

(***************************************************************************)
(* Responses.                                                              *)
(***************************************************************************)
Text(msg) == [msg |-> msg, id |-> None, bay_id |-> None, date |-> NoDate]

NoResponse == Text("")
Preflight == Text("204")
Crash == Text("UnboundLocalError")
MsgUnsupported == Text("Unsupported request content")
MsgHandleError == Text("Something went wrong while processing your request. Please try again later.")
MsgCancelled == Text("Your booking has been cancelled!")
MsgNotFound == Text("No booking found with the given id and email")
MsgCancelError == Text("Something went wrong, when trying to cancel your booking. Please try again later")
MsgNoBays == Text("No bays are available for the selected time.")
MsgBookingError == Text("Something went wrong, when trying to make your booking. Please try again later")

Confirmation(row) ==
    [msg |-> "Booking successfully made!", id |-> row.id, bay_id |-> row.bay_id,
     date |-> row.date]

(***************************************************************************)
(* The store.                                                              *)
(***************************************************************************)
\* an overlap query that compares the two start times
BookedBayIdsStartBeforeStart(bks, booking_date, start_time, end_time) ==
    { bks[i].bay_id : i \in { j \in DOMAIN bks :
                                /\ bks[j].date = booking_date
                                /\ bks[j].start_time < start_time
                                /\ bks[j].end_time > start_time } }

\* bookings.select('bay_id').eq('date', d).lt('start_time', e).gt('end_time', s)
BookedBayIds(bks, booking_date, start_time, end_time) ==
    { bks[i].bay_id : i \in { j \in DOMAIN bks :
                                /\ bks[j].date = booking_date
                                /\ bks[j].start_time < end_time
                                /\ bks[j].end_time > start_time } }

\* bays.select('id').not_.in_('id', booked).eq('status', 'Available')
AvailableBaysNotIn(bys, booked_bay_ids) ==
    { b \in DOMAIN bys : b \notin booked_bay_ids /\ bys[b] = "Available" }

\* bays.select('id')
AllBays(bys) == DOMAIN bys

\* find_a_bay with the store answering: the bay ids it may return.  The
\* queries state no order, so available_bay_ids[0] is any row of the answer;
\* None when the answer is empty.
FindABayResults(bks, bys, booking_date, start_time, end_time) ==
    LET booked_bay_ids == BookedBayIds(bks, booking_date, start_time, end_time)
        available_bay_ids == IF booked_bay_ids # {}
                             THEN AvailableBaysNotIn(bys, booked_bay_ids)
                             ELSE AllBays(bys)
    IN  IF available_bay_ids # {} THEN available_bay_ids ELSE {None}

\* a new_booking that inserts the first bay, not the bay find_a_bay returned
NewRowFirstBay(bks, params, bay) ==
    LET start_time == format_start_time(params.booking_start_time)
        duration == DurationToken(params.booking_duration)
    IN  [id |-> Len(bks) + 1,
         email |-> params.customer_email,
         bay_id |-> 1,
         date |-> FormatDate(params.booking_date),
         start_time |-> start_time,
         end_time |-> generate_end_time(duration, start_time),
         status |-> "booked",
         duration |-> duration]

\* the row new_booking inserts, with the id the store gives it
NewRow(bks, params, bay) ==
    LET start_time == format_start_time(params.booking_start_time)
        duration == DurationToken(params.booking_duration)
    IN  [id |-> Len(bks) + 1,
         email |-> params.customer_email,
         bay_id |-> bay,
         date |-> FormatDate(params.booking_date),
         start_time |-> start_time,
         end_time |-> generate_end_time(duration, start_time),
         status |-> "booked",
         duration |-> duration]

\* a cancel_booking that selects by id alone
CancelMatchesIdOnly(bks, booking_id, customer_email) ==
    { i \in DOMAIN bks : bks[i].id = booking_id }

\* the rows .eq("id", booking_id).eq('email', customer_email) selects
CancelMatches(bks, booking_id, customer_email) ==
    { i \in DOMAIN bks : bks[i].id = booking_id /\ bks[i].email = customer_email }

\* a cancel_booking that deletes the selected rows
CancelUpdateDeleting(bks, matched) ==
    LET kept(row) == row.id \notin matched IN SelectSeq(bks, kept)

\* update({'status': "cancelled"}) on the selected rows
CancelUpdate(bks, matched) ==
    [i \in DOMAIN bks |->
        IF i \in matched THEN [bks[i] EXCEPT !.status = "cancelled"] ELSE bks[i]]

(***************************************************************************)
(* Initial state: no bookings, any status for each bay, no invocation.     *)
(***************************************************************************)
Init ==
    /\ bookings = <<>>
    /\ bays \in [BayIds -> {"Available", "Unavailable"}]
    /\ pc = [p \in Procs |-> "idle"]
    /\ req = [p \in Procs |-> NoRequest]
    /\ bay_id = [p \in Procs |-> None]
    /\ resp = [p \in Procs |-> NoResponse]
    /\ log = [p \in Procs |-> {}]

\* invocations that may still insert a row
InFlight == { p \in Procs : pc[p] \in {"new_booking", "insert"} }

Finish(p, response, printed) ==
    /\ pc' = [pc EXCEPT ![p] = "done"]
    /\ resp' = [resp EXCEPT ![p] = response]
    /\ log' = [log EXCEPT ![p] = log[p] \cup printed]
    /\ bay_id' = [bay_id EXCEPT ![p] = None]

(***************************************************************************)
(* handle_request, lines 27-47: the preflight, the dispatch on the tag.    *)
(***************************************************************************)
HandlePreflight(p) ==
    /\ pc[p] = "idle"
    /\ req' = [req EXCEPT ![p] = Request("OPTIONS", "", NoParams)]
    /\ Finish(p, Preflight, {})
    /\ UNCHANGED <<bookings, bays>>

\* a method other than POST leaves response_text unbound: line 49 raises
HandleOtherMethod(p) ==
    /\ pc[p] = "idle"
    /\ req' = [req EXCEPT ![p] = Request("GET", "", NoParams)]
    /\ Finish(p, Crash, {})
    /\ UNCHANGED <<bookings, bays>>

\* a POST whose body has no fulfillmentInfo.tag: the except branch
HandleNoTag(p) ==
    /\ pc[p] = "idle"
    /\ req' = [req EXCEPT ![p] = Request("POST", "", NoParams)]
    /\ Finish(p, MsgHandleError, {"handle_request"})
    /\ UNCHANGED <<bookings, bays>>

HandleUnsupported(p) ==
    /\ pc[p] = "idle"
    /\ req' = [req EXCEPT ![p] = Request("POST", "someOtherTag", NoParams)]
    /\ Finish(p, MsgUnsupported, {})
    /\ UNCHANGED <<bookings, bays>>

HandleMakeNewBooking(p, inputs) ==
    /\ pc[p] = "idle"
    /\ Len(bookings) + Cardinality(InFlight) < MaxBookings
    /\ \E params \in inputs :
          req' = [req EXCEPT ![p] = Request("POST", "makeNewBooking", params)]
    /\ pc' = [pc EXCEPT ![p] = "new_booking"]
    /\ UNCHANGED <<bookings, bays, bay_id, resp, log>>

HandleCancelBooking(p) ==
    /\ pc[p] = "idle"
    /\ \E params \in CancelParams :
          req' = [req EXCEPT ![p] = Request("POST", "cancelBooking", params)]
    /\ pc' = [pc EXCEPT ![p] = "cancel_booking"]
    /\ UNCHANGED <<bookings, bays, bay_id, resp, log>>

(***************************************************************************)
(* new_booking, lines 105-115: the parameters, then find_a_bay.            *)
(***************************************************************************)
\* what the except branches of the time utilities print
TimeErrors(params) ==
    LET start_time == format_start_time(params.booking_start_time)
        duration == DurationToken(params.booking_duration)
    IN  (IF start_time = None THEN {"format_start_time"} ELSE {})
        \cup (IF generate_end_time(duration, start_time) = None
              THEN {"generate_end_time"} ELSE {})

\* find_a_bay answers a bay: on to the insert
FindABayFound(p) ==
    /\ pc[p] = "new_booking"
    /\ LET params == req[p].params
           booking_date == FormatDate(params.booking_date)
           start_time == format_start_time(params.booking_start_time)
           end_time == generate_end_time(DurationToken(params.booking_duration), start_time)
       IN  /\ start_time # None /\ end_time # None
           /\ \E b \in FindABayResults(bookings, bays, booking_date, start_time, end_time) :
                 /\ b # None
                 /\ bay_id' = [bay_id EXCEPT ![p] = b]
    /\ pc' = [pc EXCEPT ![p] = "insert"]
    /\ UNCHANGED <<bookings, bays, req, resp, log>>

\* find_a_bay answers None as no row is left
FindABayNone(p) ==
    /\ pc[p] = "new_booking"
    /\ LET params == req[p].params
           booking_date == FormatDate(params.booking_date)
           start_time == format_start_time(params.booking_start_time)
           end_time == generate_end_time(DurationToken(params.booking_duration), start_time)
       IN  /\ start_time # None /\ end_time # None
           /\ None \in FindABayResults(bookings, bays, booking_date, start_time, end_time)
    /\ Finish(p, MsgNoBays, {})
    /\ UNCHANGED <<bookings, bays, req>>

\* find_a_bay answers None from its except branch: the store call raises, as
\* it may at any time, and as it does for a time that is None
FindABayError(p) ==
    /\ pc[p] = "new_booking"
    /\ Finish(p, MsgNoBays, TimeErrors(req[p].params) \cup {"find_a_bay"})
    /\ UNCHANGED <<bookings, bays, req>>

(***************************************************************************)
(* new_booking, lines 117-140: the insert and the confirmation.            *)
(***************************************************************************)
\* the store answers an insert with the row it stored, so response.data is
\* not empty and the else of line 135 is not taken
InsertBooking(p) ==
    /\ pc[p] = "insert"
    /\ LET row == NewRow(bookings, req[p].params, bay_id[p]) IN
          /\ bookings' = Append(bookings, row)
          /\ Finish(p, Confirmation(row), {})
    /\ UNCHANGED <<bays, req>>

\* the insert raises: the except branch of new_booking
InsertError(p) ==
    /\ pc[p] = "insert"
    /\ Finish(p, MsgBookingError, {"new_booking"})
    /\ UNCHANGED <<bookings, bays, req>>

(***************************************************************************)
(* cancel_booking, lines 77-91.                                            *)
(***************************************************************************)
CancelBooking(p) ==
    /\ pc[p] = "cancel_booking"
    /\ LET booking_id == req[p].params.booking_id
           customer_email == Lower(req[p].params.customer_email)
           matched == CancelMatches(bookings, booking_id, customer_email)
       IN  /\ bookings' = CancelUpdate(bookings, matched)
           /\ Finish(p, IF matched # {} THEN MsgCancelled ELSE MsgNotFound, {})
    /\ UNCHANGED <<bays, req>>

\* the update raises: the except branch of cancel_booking
CancelError(p) ==
    /\ pc[p] = "cancel_booking"
    /\ Finish(p, MsgCancelError, {"cancel_booking"})
    /\ UNCHANGED <<bookings, bays, req>>

(***************************************************************************)
(* handle_request, lines 49-64: the response leaves, the invocation ends.  *)
(***************************************************************************)
Return(p) ==
    /\ pc[p] = "done"
    /\ pc' = [pc EXCEPT ![p] = "idle"]
    /\ req' = [req EXCEPT ![p] = NoRequest]
    /\ bay_id' = [bay_id EXCEPT ![p] = None]
    /\ resp' = [resp EXCEPT ![p] = NoResponse]
    /\ log' = [log EXCEPT ![p] = {}]
    /\ UNCHANGED <<bookings, bays>>

Serve(p) ==
    \/ HandlePreflight(p)
    \/ HandleOtherMethod(p)
    \/ HandleNoTag(p)
    \/ HandleUnsupported(p)
    \/ HandleCancelBooking(p)
    \/ FindABayFound(p)
    \/ FindABayNone(p)
    \/ FindABayError(p)
    \/ InsertBooking(p)
    \/ InsertError(p)
    \/ CancelBooking(p)
    \/ CancelError(p)
    \/ Return(p)

Next ==
    \E p \in Procs :
        \/ HandleMakeNewBooking(p, BookingParams)
        \/ Serve(p)

Spec == Init /\ [][Next]_vars

\* the same program, with the requests at the edges of the time utilities too
NextEdge ==
    \E p \in Procs :
        \/ HandleMakeNewBooking(p, BookingParams \cup EdgeBookingParams)
        \/ Serve(p)

SpecEdge == Init /\ [][NextEdge]_vars

(***************************************************************************)
(* new_booking, lines 112-137, run with no other invocation's store call   *)
(* between its find_a_bay and its insert.                                  *)
(***************************************************************************)
\* find_a_bay answers a bay and the insert stores the row
NewBookingAtomic(p) ==
    /\ pc[p] = "new_booking"
    /\ LET params == req[p].params
           booking_date == FormatDate(params.booking_date)
           start_time == format_start_time(params.booking_start_time)
           end_time == generate_end_time(DurationToken(params.booking_duration), start_time)
       IN  /\ start_time # None /\ end_time # None
           /\ \E b \in FindABayResults(bookings, bays, booking_date, start_time, end_time) :
                 /\ b # None
                 /\ LET row == NewRow(bookings, params, b) IN
                       /\ bookings' = Append(bookings, row)
                       /\ Finish(p, Confirmation(row), {})
    /\ UNCHANGED <<bays, req>>

\* find_a_bay answers a bay and the insert raises
NewBookingAtomicInsertError(p) ==
    /\ pc[p] = "new_booking"
    /\ LET params == req[p].params
           booking_date == FormatDate(params.booking_date)
           start_time == format_start_time(params.booking_start_time)
           end_time == generate_end_time(DurationToken(params.booking_duration), start_time)
       IN  /\ start_time # None /\ end_time # None
           /\ FindABayResults(bookings, bays, booking_date, start_time, end_time) # {None}
    /\ Finish(p, MsgBookingError, {"new_booking"})
    /\ UNCHANGED <<bookings, bays, req>>

NextAtomic ==
    \E p \in Procs :
        \/ HandleMakeNewBooking(p, BookingParams)
        \/ HandlePreflight(p)
        \/ HandleOtherMethod(p)
        \/ HandleNoTag(p)
        \/ HandleUnsupported(p)
        \/ HandleCancelBooking(p)
        \/ NewBookingAtomic(p)
        \/ NewBookingAtomicInsertError(p)
        \/ FindABayNone(p)
        \/ FindABayError(p)
        \/ CancelBooking(p)
        \/ CancelError(p)
        \/ Return(p)

SpecAtomic == Init /\ [][NextAtomic]_vars

(***************************************************************************)
(* The properties.  A reservation is a row of bookings; it is Booked while *)
(* its status is "booked".  Two windows [s1, e1) and [s2, e2) overlap iff  *)
(* s1 < e2 and s2 < e1.                                                    *)
(***************************************************************************)
Overlap(s1, e1, s2, e2) == s1 < e2 /\ s2 < e1

IsBooked(row) == row.status = "booked"

\* the window a makeNewBooking request asks for
WindowDate(r) == FormatDate(r.params.booking_date)
WindowStart(r) == format_start_time(r.params.booking_start_time)
WindowEnd(r) == generate_end_time(DurationToken(r.params.booking_duration), WindowStart(r))

\* bay u has a Booked reservation that overlaps the window of request r
Occupied(u, r) ==
    \E i \in DOMAIN bookings :
        /\ IsBooked(bookings[i])
        /\ bookings[i].bay_id = u
        /\ bookings[i].date = WindowDate(r)
        /\ Overlap(WindowStart(r), WindowEnd(r), bookings[i].start_time, bookings[i].end_time)

\* the bays that are Available and not occupied for the window of request r
Eligible(r) == { u \in DOMAIN bays : bays[u] = "Available" /\ ~Occupied(u, r) }

Lowest(S) == CHOOSE u \in S : \A v \in S : u <= v

\* this step is invocation p's call of find_a_bay, and what the call returns
FindABayStep(p) == pc[p] = "new_booking" /\ pc'[p] # "new_booking"
FindABayResult(p) == IF pc'[p] = "insert" THEN bay_id'[p] ELSE None
\* the store answered the queries of find_a_bay
LookupAnswered(p) == "find_a_bay" \notin log'[p]

\* this step is invocation p's call of cancel_booking, on the row it names
CancelStep(p) == pc[p] = "cancel_booking" /\ pc'[p] = "done"
CancelAnswered(p) == "cancel_booking" \notin log'[p]
CancelTargetExists(r) == r.params.booking_id \in DOMAIN bookings
CancelTarget(r) == bookings[r.params.booking_id]
SameRequester(r) == Lower(r.params.customer_email) = Lower(CancelTarget(r).email)

IsConfirmation(response) == response.msg = "Booking successfully made!"

\* C1: in every reachable state no two Booked reservations on the same date
\* and the same bay have overlapping windows.
C1_NoOverlappingBooked ==
    \A i, j \in DOMAIN bookings :
        ( /\ i < j
          /\ IsBooked(bookings[i]) /\ IsBooked(bookings[j])
          /\ bookings[i].date = bookings[j].date
          /\ bookings[i].bay_id = bookings[j].bay_id )
        => ~Overlap(bookings[i].start_time, bookings[i].end_time,
                    bookings[j].start_time, bookings[j].end_time)

\* C2: two makeNewBooking invocations in flight together for the same date and
\* overlapping windows are never both confirmed on the same bay.
C2_NeverBothConfirmed ==
    \A p, q \in Procs :
        ( /\ p # q
          /\ pc[p] = "done" /\ pc[q] = "done"
          /\ req[p].tag = "makeNewBooking" /\ req[q].tag = "makeNewBooking"
          /\ IsConfirmation(resp[p]) /\ IsConfirmation(resp[q])
          /\ WindowDate(req[p]) = WindowDate(req[q])
          /\ Overlap(WindowStart(req[p]), WindowEnd(req[p]),
                     WindowStart(req[q]), WindowEnd(req[q])) )
        => resp[p].bay_id # resp[q].bay_id

\* C3: no reservation references a bay whose status is Unavailable (the
\* program never changes a bay's status, so its status at the time of the
\* booking is its status).
C3_UnavailableNeverAssigned ==
    \A i \in DOMAIN bookings : bays[bookings[i].bay_id] = "Available"

\* C4: find_a_bay never returns a bay with a Booked reservation overlapping
\* the window, and returns None when every Available bay has one.
C4_FindABayAvoidsOccupied ==
    [][\A p \in Procs :
          FindABayStep(p) =>
             /\ FindABayResult(p) # None => ~Occupied(FindABayResult(p), req[p])
             /\ Eligible(req[p]) = {} => FindABayResult(p) = None]_vars

\* C5: when some bay is eligible and the store answers, find_a_bay returns the
\* eligible bay with the lowest id, whatever the order of the store's rows.
C5_LowestEligible ==
    [][\A p \in Procs :
          (FindABayStep(p) /\ LookupAnswered(p) /\ Eligible(req[p]) # {})
             => FindABayResult(p) = Lowest(Eligible(req[p]))]_vars

\* C6: only Booked reservations are conflicts: when a bay is Available and the
\* reservations overlapping the window on it, if any, are all cancelled, the
\* request is not answered with no availability.
C6_CancelledDoesNotOccupy ==
    [][\A p \in Procs :
          (FindABayStep(p) /\ LookupAnswered(p) /\ Eligible(req[p]) # {})
             => FindABayResult(p) # None]_vars

\* C7: cancel_booking with the id of an existing reservation and an e-mail
\* that is not its requester's changes no reservation, and answers that no
\* booking was found.
C7_WrongEmailNotFound ==
    [][\A p \in Procs :
          (CancelStep(p) /\ CancelTargetExists(req[p]) /\ ~SameRequester(req[p]))
             => /\ bookings' = bookings
                /\ CancelAnswered(p) => resp'[p] = MsgNotFound]_vars

C7_Witness ==
    \E p \in Procs :
        /\ pc[p] = "done" /\ req[p].tag = "cancelBooking"
        /\ CancelTargetExists(req[p]) /\ ~SameRequester(req[p])
        /\ IsBooked(CancelTarget(req[p]))
        /\ resp[p] = MsgNotFound

\* C8: cancel_booking on a reservation that is already cancelled answers that
\* no booking was found, not success (so that at most one cancel_booking of a
\* reservation answers success).
C8_CancelledNotFound ==
    [][\A p \in Procs :
          ( /\ CancelStep(p) /\ CancelAnswered(p)
            /\ CancelTargetExists(req[p]) /\ ~IsBooked(CancelTarget(req[p])) )
             => resp'[p] = MsgNotFound]_vars

\* C9: e-mails match whatever their letter case: cancel_booking with the id
\* of a Booked reservation and its requester's e-mail in any letter case
\* cancels it.
C9_CaseInsensitiveCancel ==
    [][\A p \in Procs :
          ( /\ CancelStep(p) /\ CancelAnswered(p)
            /\ CancelTargetExists(req[p]) /\ IsBooked(CancelTarget(req[p]))
            /\ SameRequester(req[p]) )
             => /\ resp'[p] = MsgCancelled
                /\ bookings'[req[p].params.booking_id].status = "cancelled"]_vars

\* C10: a reservation is never removed, none of its fields but status ever
\* changes, and a cancelled reservation stays cancelled.
C10_Lifecycle ==
    [][\A i \in DOMAIN bookings :
          /\ i \in DOMAIN bookings'
          /\ bookings'[i] = [bookings[i] EXCEPT !.status = bookings'[i].status]
          /\ bookings[i].status = "cancelled" => bookings'[i].status = "cancelled"]_vars

\* a reservation was created and cancelled, and another was created and is
\* still Booked
C10_Witness ==
    /\ Len(bookings) >= 2
    /\ bookings[1].status = "cancelled"
    /\ bookings[2].status = "booked"

\* the hours of a stored duration
DurationHours(row) == IntOfToken(row.duration)

\* C11: the end time does not wrap past midnight: every reservation persisted
\* for a duration of one hour or more has start < end, and its end is its
\* start plus the duration, within the day.
C11_EndTimeDoesNotWrap ==
    \A i \in DOMAIN bookings :
        DurationHours(bookings[i]) >= 1 =>
            /\ bookings[i].start_time < bookings[i].end_time
            /\ bookings[i].end_time
                  = bookings[i].start_time + DurationHours(bookings[i]) * SecondsPerHour

\* C12: round trip: the overlap query of find_a_bay, asked with the date, start
\* and end of a persisted reservation, reports the reservation's bay.
C12_RoundTripOccupied ==
    \A i \in DOMAIN bookings :
        bookings[i].bay_id \in BookedBayIds(bookings, bookings[i].date,
                                            bookings[i].start_time, bookings[i].end_time)

\* C13: no reservation is persisted for a duration that is not a positive
\* number of hours.
C13_PositiveDuration ==
    \A i \in DOMAIN bookings : DurationHours(bookings[i]) > 0

\* C14: a makeNewBooking request whose start time format_start_time cannot
\* parse persists nothing and is answered with the retry-later message of
\* new_booking, not with no availability and not with a confirmation.
C14_MalformedStartRetryLater ==
    [][\A p \in Procs :
          (FindABayStep(p) /\ WindowStart(req[p]) = None)
             => /\ bookings' = bookings
                /\ pc'[p] = "done"
                /\ resp'[p] = MsgBookingError]_vars

\* C15: find_a_bay's result when the store fails differs from its result when
\* no bay is eligible, which is None.
C15_LookupFailureDistinct ==
    [][\A p \in Procs :
          (FindABayStep(p) /\ ~LookupAnswered(p)) => FindABayResult(p) # None]_vars

\* this step is a step of invocation p serving a makeNewBooking request
NewBookingStep(p) == pc[p] \in {"new_booking", "insert"} /\ pc'[p] # pc[p]
\* the step ends the invocation with a confirmation
Confirms(p) == pc'[p] = "done" /\ IsConfirmation(resp'[p])

C17_AtomicNoOverlap ==
    \A i, j \in DOMAIN bookings :
        ( /\ i # j
          /\ IsBooked(bookings[i]) /\ IsBooked(bookings[j])
          /\ bookings[i].start_time < bookings[i].end_time
          /\ bookings[j].start_time < bookings[j].end_time
          /\ bookings[i].date = bookings[j].date
          /\ Overlap(bookings[i].start_time, bookings[i].end_time,
                     bookings[j].start_time, bookings[j].end_time) )
        => bookings[i].bay_id # bookings[j].bay_id

\* two Booked reservations with overlapping windows on one date are stored
C17_Witness ==
    \E i, j \in DOMAIN bookings :
        /\ i # j
        /\ IsBooked(bookings[i]) /\ IsBooked(bookings[j])
        /\ bookings[i].date = bookings[j].date
        /\ Overlap(bookings[i].start_time, bookings[i].end_time,
                   bookings[j].start_time, bookings[j].end_time)
        /\ bookings[i].bay_id # bookings[j].bay_id

\* bay u has a Booked reservation on the date of request r whose window ends
\* where the window of r starts, or starts where it ends
BackToBack(u, r) ==
    \E i \in DOMAIN bookings :
        /\ IsBooked(bookings[i])
        /\ bookings[i].bay_id = u
        /\ bookings[i].date = WindowDate(r)
        /\ \/ bookings[i].end_time = WindowStart(r)
           \/ bookings[i].start_time = WindowEnd(r)

\* u is the one bay that is Available
OnlyAvailable(u) == \A v \in DOMAIN bays : bays[v] = "Available" <=> v = u

\* C18: a request whose window starts where a Booked reservation of a bay
\* ends (or ends where it starts) does not conflict with it: when that bay is
\* the only Available one and nothing overlaps the window on it, find_a_bay
\* returns that same bay.
C18_BackToBackSameUnit ==
    [][\A p \in Procs :
          (FindABayStep(p) /\ LookupAnswered(p) /\ WindowStart(req[p]) # None)
             => \A u \in DOMAIN bays :
                   (OnlyAvailable(u) /\ BackToBack(u, req[p]) /\ ~Occupied(u, req[p]))
                      => FindABayResult(p) = u]_vars

\* this step ends invocation p with its response
EndsInvocation(p) == pc[p] # "done" /\ pc'[p] = "done"

\* C19: every request but the preflight ends with one result message; a
\* makeNewBooking tag runs new_booking only, a cancelBooking tag runs
\* cancel_booking only, any other tag is answered "Unsupported request
\* content" with the store unchanged.
C19_DispatcherAlwaysAnswers ==
    [][\A p \in Procs :
          (EndsInvocation(p) /\ req'[p].method # "OPTIONS")
             => /\ resp'[p] # NoResponse
                /\ resp'[p] # Crash
                /\ req'[p].tag = "makeNewBooking" => pc[p] \in {"new_booking", "insert"}
                /\ req'[p].tag = "cancelBooking" => pc[p] = "cancel_booking"
                /\ req'[p].tag = "someOtherTag"
                      => /\ resp'[p] = MsgUnsupported
                         /\ bookings' = bookings
                         /\ bays' = bays]_vars

====
